---------------------------- MODULE Spec2Model ----------------------------
(***************************************************************************)
(* dbacker (src/main.go): one run deletes the expired backup tables of a   *)
(* PostgreSQL database (deleteOldBackups) and then copies every other      *)
(* table into a dated backup table (performBackup).                        *)
(*                                                                         *)
(* Table names are sequences of one-character strings.  The names of the   *)
(* model are made of lower-case letters, digits and "_": the characters    *)
(* that an unquoted SQL identifier passes through unchanged, so that the   *)
(* statement text "DROP TABLE IF EXISTS <name>" names the table <name>.    *)
(* "%" and "\" occur in LIKE patterns only.  The database is the set of    *)
(* table names of schema public.  A query returns its rows in no defined   *)
(* order: the rows of a cursor and the slices filled from them are sets,   *)
(* and a loop takes any element it has not visited.  The clock is the      *)
(* local calendar day as a day number (days since 1970-01-01).             *)
(***************************************************************************)
EXTENDS Integers, Sequences, FiniteSets, Bags, TLC

(***************************************************************************)
(* Bounds of the model.                                                    *)
(***************************************************************************)
\* first day of the clock: 19721 is 2023-12-30, so that the days of a
\* behaviour cross a month and a year boundary
FirstDay == 19721
\* the clock advances at most this many days
NumDays == 3
\* the largest retention period passed to performBackup
MaxRetention == 1
\* the number of runs of one behaviour: calls of performBackup, or starts
\* of the program
MaxRuns == 2
\* the number of failures the environment produces in one behaviour
MaxFaults == 2
\* the same, in a behaviour of several runs
MaxRunsFaults == 1

(***************************************************************************)
(* Strings.                                                                *)
(***************************************************************************)
\* the characters of the model in the order of their byte values
\* ("%" 37, digits 48-57, "\" 92, "_" 95, letters 97-122)
ByteOrder ==
    << "%", "0", "1", "2", "3", "4", "5", "6", "7", "8", "9", "\\", "_",
       "a", "b", "c", "k", "o", "p", "t", "u", "x" >>

\* the place of each character in ByteOrder
ByteRank ==
    [c \in {ByteOrder[i] : i \in 1..Len(ByteOrder)} |->
        CHOOSE i \in 1..Len(ByteOrder) : ByteOrder[i] = c]

Byte(c) == ByteRank[c]

\* Go's s < t on strings: bytewise lexicographic order
StrLess(s, t) ==
    \E i \in 1..Len(t) :
        /\ i <= Len(s) + 1
        /\ \A j \in 1..(i - 1) : s[j] = t[j]
        /\ \/ i = Len(s) + 1
           \/ Byte(s[i]) < Byte(t[i])

\* the length the code requires of a name before it reads a date from it,
\* and the length of that date
DateLen == 8

\* tableName[len(tableName)-8:]
DatePart(tableName) == SubSeq(tableName, Len(tableName) - DateLen + 1, Len(tableName))

(***************************************************************************)
(* Dates: time.Now().AddDate(0, 0, n).Format("20060102").                  *)
(***************************************************************************)
\* the civil date of a day number (proleptic Gregorian calendar)
Civil(z) ==
    LET s == z + 719468
        era == s \div 146097
        doe == s - era * 146097
        yoe == (doe - doe \div 1460 + doe \div 36524 - doe \div 146096) \div 365
        doy == doe - (365 * yoe + yoe \div 4 - yoe \div 100)
        mp == (5 * doy + 2) \div 153
        d == doy - (153 * mp + 2) \div 5 + 1
        m == IF mp < 10 THEN mp + 3 ELSE mp - 9
        y == yoe + era * 400 + (IF m <= 2 THEN 1 ELSE 0)
    IN  [year |-> y, month |-> m, day |-> d]

Digit(n) == ByteOrder[n + 2]

\* layout "20060102": four digits of the year, two of the month, two of the day
Format(z) ==
    LET c == Civil(z)
    IN  << Digit((c.year \div 1000) % 10), Digit((c.year \div 100) % 10),
           Digit((c.year \div 10) % 10), Digit(c.year % 10),
           Digit(c.month \div 10), Digit(c.month % 10),
           Digit(c.day \div 10), Digit(c.day % 10) >>

\* t.AddDate(0, 0, days): the calendar days the result can fall on.  AddDate
\* takes t's date and time of day, moves the date by `days` and has Date
\* resolve the result in t's zone.  A time of day that does not exist on
\* that day, because the zone's clock was put forward across it, becomes a
\* time of one of the two offsets of the transition: on the day before when
\* the clock was put forward at midnight (America/Havana, 00:30 of
\* 2024-03-10 becomes 23:30 of 2024-03-09), on the day after when it was
\* put forward to midnight or beyond (Asia/Pyongyang, 23:30 of 2018-05-04
\* becomes 00:00 of 2018-05-05).  With days = 0 the time is t's own
AddDate(t, days) ==
    IF days = 0 THEN {t} ELSE {t + days - 1, t + days, t + days + 1}

\* threshold of deleteOldBackups: the strings it can be
Threshold(t, retention) == {Format(d) : d \in AddDate(t, -retention)}

(***************************************************************************)
(* The database.                                                           *)
(***************************************************************************)
\* text LIKE pattern: "%" matches any sequence, "_" any one character,
\* "\" makes the next character literal
RECURSIVE Like(_, _)
Like(text, pattern) ==
    IF pattern = << >> THEN text = << >>
    ELSE IF Head(pattern) = "%"
         THEN Like(text, Tail(pattern))
              \/ (text # << >> /\ Like(Tail(text), pattern))
    ELSE IF Head(pattern) = "\\"
         THEN /\ Len(pattern) >= 2
              /\ text # << >>
              /\ Head(text) = pattern[2]
              /\ Like(Tail(text), SubSeq(pattern, 3, Len(pattern)))
    ELSE /\ text # << >>
         /\ (Head(pattern) = "_" \/ Head(pattern) = Head(text))
         /\ Like(Tail(text), Tail(pattern))

\* SELECT table_name ... WHERE table_name LIKE $1 || '%'
BackupTables(cat, pfx) == {t \in cat : Like(t, pfx \o << "%" >>)}

\* TablesToBackup without its filter
AllTables(cat, pfx) == cat

\* SELECT table_name ... WHERE table_name NOT LIKE $1 || '%'
TablesToBackup(cat, pfx) == {t \in cat : ~Like(t, pfx \o << "%" >>)}

\* the test of deleteOldBackups on one row
Expired(tableName, thr) ==
    /\ Len(tableName) >= DateLen
    /\ StrLess(DatePart(tableName), thr)

\* fmt.Sprintf("%s_%s_%s", prefix, table, currentDate)
BackupTableName(pfx, table, date) == pfx \o << "_" >> \o table \o << "_" >> \o date

\* Executes without the test of realRun
ExecutesAlways(real) == TRUE

\* "if realRun {": whether the loops send their statements to the database
Executes(real) == real

DropStmt(table) == [op |-> "DROP", table |-> table, target |-> << >>]
CreateStmt(table, target) == [op |-> "CREATE", table |-> table, target |-> target]


(***************************************************************************)
(* State.                                                                  *)
(***************************************************************************)
VARIABLES
    catalog,        \* the tables of schema public
    now,            \* the clock: the current local day
    runSwitch,      \* whether the operator gave -run on the command line
    prefix,         \* config.Backup.Prefix / performBackup's prefix
    retentionDays,  \* config.Backup.Retention / performBackup's retentionDays
    realRun,        \* performBackup's realRun
    pc,             \* the place of the run in the code
    result,         \* what performBackup returned: "none", "nil" or "err"
    threshold,      \* deleteOldBackups' threshold
    rows,           \* the rows the open cursor has not delivered yet
    tablesToDelete, \* deleteOldBackups' tablesToDelete
    tables,         \* getTablesToBackup's tables
    pending,        \* the part of the slice a range loop has not visited yet
    currentDate,    \* performBackup's currentDate
    dropLogged,     \* tables of the log lines "Удалена старая таблица бэкапа"
    createLogged,   \* <<table, backup>> of the log lines "Создан бэкап таблицы"
    issued,         \* history: the bag of statements the run sent to db.Exec
    failed,         \* history: the statements of the run that returned an error
    faults,         \* history: the kinds of failure the environment produced
                    \* in the run
    scanned,        \* history: the rows rows.Scan delivered to deleteOldBackups
    cat0,           \* history: the catalog when the run started
    sweepDay,       \* history: the day deleteOldBackups read from the clock
    snapDay,        \* history: the day performBackup read from the clock
    created,        \* history: the backup tables the runs made, each with
                    \* the day of the run that made it
    prev,           \* history: the outcome of the run before this one
    faultsLeft,     \* the number of failures the environment still produces
    runs            \* the number of runs started

vars ==
    << catalog, now, runSwitch, prefix, retentionDays, realRun, pc, result,
       threshold, rows, tablesToDelete, tables, pending, currentDate,
       dropLogged, createLogged, issued, failed, faults, scanned, cat0,
       sweepDay, snapDay, created, prev, faultsLeft, runs >>

\* the variables of one run, as they are when the run starts
RunLocals ==
    << result, threshold, rows, tablesToDelete, tables, pending, currentDate,
       dropLogged, createLogged, issued, failed, faults, scanned, sweepDay,
       snapDay >>

Args == << runSwitch, prefix, retentionDays, realRun >>

NoPrev == [clean |-> FALSE, day |-> 0, catalog |-> {}, targets |-> {}]

(***************************************************************************)
(* The inputs of the model.                                                *)
(***************************************************************************)
\* whether an operation that can succeed succeeds: the environment may make
\* it fail while it has failures left
Outcomes == IF faultsLeft > 0 THEN BOOLEAN ELSE {TRUE}

\* what rows.Next() and rows.Scan() make of the next row
RowOutcomes ==
    IF faultsLeft > 0 THEN {"row", "scanError", "nextError"} ELSE {"row"}

\* the environment makes an operation of the run fail
Fault(kind) ==
    /\ faults' = faults \cup {kind}
    /\ faultsLeft' = faultsLeft - 1

NoFault == UNCHANGED << faults, faultsLeft >>

Prefixes == { << "b" >>, << "b", "_" >> }

Retentions == 0..MaxRetention

\* two source tables, one of them with "_" and a digit in its name; two
\* tables that are no backups of prefix "b_": a short one and one that ends
\* in a date; yesterday's backup of table u; a table of exactly 8 characters
TableNames ==
    { << "u" >>,
      << "o", "_", "1" >>,
      << "b", "x" >>,
      << "b", "x" >> \o Format(FirstDay - 2),
      BackupTableName(<< "b" >>, << "u" >>, Format(FirstDay - 1)),
      << "b", "_", "u", "_", "1", "2", "3", "1" >> }

InitRun ==
    /\ result = "none"
    /\ threshold = << >>
    /\ rows = {}
    /\ tablesToDelete = {}
    /\ tables = {}
    /\ pending = {}
    /\ currentDate = << >>
    /\ dropLogged = {}
    /\ createLogged = {}
    /\ issued = EmptyBag
    /\ failed = {}
    /\ faults = {}
    /\ scanned = {}
    /\ sweepDay = 0
    /\ snapDay = 0

\* the tables of the behaviours of several runs
RunTableNames ==
    { << "u" >>,
      << "o", "_", "1" >>,
      BackupTableName(<< "b" >>, << "u" >>, Format(FirstDay - 1)) }

\* performBackup called with any arguments on a catalog of the tables of
\* `names`, in a behaviour of `n` more runs
InitWith(names, n, f) ==
    /\ catalog \in SUBSET names
    /\ cat0 = catalog
    /\ now = FirstDay
    /\ prefix \in Prefixes
    /\ retentionDays \in Retentions
    /\ realRun \in BOOLEAN
    /\ runSwitch = realRun
    /\ pc = "deleteOldBackups"
    /\ created = << >>
    /\ prev = NoPrev
    /\ faultsLeft = f
    /\ runs = MaxRuns - n
    /\ InitRun

\* one run of performBackup
Init == InitWith(TableNames, 0, MaxFaults)

\* the first of MaxRuns calls of performBackup, each with the arguments of
\* the first
InitRuns == InitWith(RunTableNames, MaxRuns - 1, MaxRunsFaults)

\* the first of MaxRuns processes at the start of main: the configuration
\* file holds any prefix (also none) and any retention (also none)
InitMain ==
    /\ catalog \in SUBSET TableNames
    /\ cat0 = catalog
    /\ now = FirstDay
    /\ prefix \in Prefixes \cup { << >> }
    /\ retentionDays \in Retentions
    /\ runSwitch \in BOOLEAN
    /\ realRun = FALSE
    /\ pc = "main"
    /\ created = << >>
    /\ prev = NoPrev
    /\ faultsLeft = MaxFaults
    /\ runs = 1
    /\ InitRun

(***************************************************************************)
(* main and loadConfig.                                                    *)
(***************************************************************************)
DefaultPrefix == << "a", "u", "t", "o", "b", "a", "c", "k", "u", "p" >>

DefaultRetention == 14

\* the value of *run when main calls performBackup: flag.Bool registers the
\* flag with default false, and main never calls flag.Parse, so the command
\* line is not read
RunFlag(switch) == FALSE

\* loadConfig's defaults
ConfigPrefix(p) == IF p = << >> THEN DefaultPrefix ELSE p

ConfigRetention(r) == IF r = 0 THEN DefaultRetention ELSE r

\* main up to the call of performBackup; loadConfig or connectToPostgres
\* may fail, and main then ends in log.Fatalf
Main ==
    /\ pc = "main"
    /\ \E ok \in BOOLEAN :
        IF ok
        THEN /\ prefix' = ConfigPrefix(prefix)
             /\ retentionDays' = ConfigRetention(retentionDays)
             /\ realRun' = RunFlag(runSwitch)
             /\ pc' = "deleteOldBackups"
        ELSE /\ pc' = "fatal"
             /\ UNCHANGED << prefix, retentionDays, realRun >>
    /\ UNCHANGED << catalog, now, runSwitch, RunLocals, cat0, created, prev,
                    faultsLeft, runs >>

(***************************************************************************)
(* deleteOldBackups.                                                       *)
(***************************************************************************)
\* lines 133-145: the threshold and the catalog query
DeleteQuery ==
    /\ pc = "deleteOldBackups"
    /\ threshold' \in Threshold(now, retentionDays)
    /\ sweepDay' = now
    /\ \E ok \in Outcomes :
        IF ok
        THEN /\ rows' = BackupTables(catalog, prefix)
             /\ pc' = "deleteRows"
             /\ UNCHANGED << result, faults, faultsLeft >>
        ELSE /\ result' = "err"
             /\ Fault("sweepQuery")
             /\ pc' = "done"
             /\ UNCHANGED rows
    /\ UNCHANGED << catalog, now, Args, tablesToDelete, tables, pending,
                    currentDate, dropLogged, createLogged, issued, failed,
                    scanned, cat0, snapDay, created, prev, runs >>

\* lines 148-161: one turn of the loop over the rows.  rows.Next() returns
\* false at the end of the result and also when reading the next row fails;
\* the code does not read rows.Err(), so both leave the loop the same way
DeleteRows ==
    /\ pc = "deleteRows"
    /\ IF rows = {}
       THEN /\ pc' = "deleteLoop"
            /\ pending' = tablesToDelete
            /\ UNCHANGED << rows, tablesToDelete, scanned, result, faults, faultsLeft >>
       ELSE \E tableName \in rows, got \in RowOutcomes :
            CASE got = "row" ->
                    /\ rows' = rows \ {tableName}
                    /\ scanned' = scanned \cup {tableName}
                    /\ tablesToDelete' =
                           IF Expired(tableName, threshold)
                           THEN tablesToDelete \cup {tableName}
                           ELSE tablesToDelete
                    /\ UNCHANGED << pc, pending, result, faults, faultsLeft >>
              [] got = "scanError" ->
                    /\ result' = "err"
                    /\ Fault("sweepScan")
                    /\ pc' = "done"
                    /\ rows' = {}
                    /\ UNCHANGED << pending, tablesToDelete, scanned >>
              [] got = "nextError" ->
                    /\ Fault("sweepNext")
                    /\ rows' = {}
                    /\ pc' = "deleteLoop"
                    /\ pending' = tablesToDelete
                    /\ UNCHANGED << tablesToDelete, scanned, result >>
    /\ UNCHANGED << catalog, now, Args, threshold, tables, currentDate,
                    dropLogged, createLogged, issued, failed, cat0, sweepDay,
                    snapDay, created, prev, runs >>

\* DeleteLoop with "return err" in the place of "continue"
DeleteLoopAbort ==
    /\ pc = "deleteLoop"
    /\ IF pending = {}
       THEN /\ pc' = "getTablesToBackup"
            /\ UNCHANGED << pending, catalog, dropLogged, issued, failed,
                            faults, faultsLeft, result >>
       ELSE \E table \in pending,
               ok \in (IF Executes(realRun) THEN Outcomes ELSE {TRUE}) :
            /\ pending' = pending \ {table}
            /\ issued' = IF Executes(realRun)
                         THEN issued (+) SetToBag({DropStmt(table)})
                         ELSE issued
            /\ IF ok
               THEN /\ dropLogged' = dropLogged \cup {table}
                    /\ catalog' = IF Executes(realRun)
                                  THEN catalog \ {table}
                                  ELSE catalog
                    /\ UNCHANGED << failed, faults, faultsLeft, pc, result >>
               ELSE /\ failed' = failed \cup {DropStmt(table)}
                    /\ Fault("drop")
                    /\ result' = "err"
                    /\ pc' = "done"
                    /\ UNCHANGED << dropLogged, catalog >>
    /\ UNCHANGED << now, Args, threshold, rows, tablesToDelete, tables,
                    currentDate, createLogged, scanned, cat0, sweepDay,
                    snapDay, created, prev, runs >>

\* lines 164-175 and 104-106: one turn of the loop over tablesToDelete
DeleteLoop ==
    /\ pc = "deleteLoop"
    /\ IF pending = {}
       THEN /\ pc' = "getTablesToBackup"
            /\ UNCHANGED << pending, catalog, dropLogged, issued, failed,
                            faults, faultsLeft >>
       ELSE \E table \in pending,
               ok \in (IF Executes(realRun) THEN Outcomes ELSE {TRUE}) :
            /\ pending' = pending \ {table}
            /\ issued' = IF Executes(realRun)
                         THEN issued (+) SetToBag({DropStmt(table)})
                         ELSE issued
            /\ IF ok
               THEN /\ dropLogged' = dropLogged \cup {table}
                    /\ catalog' = IF Executes(realRun)
                                  THEN catalog \ {table}
                                  ELSE catalog
                    /\ UNCHANGED << failed, faults, faultsLeft >>
               ELSE /\ failed' = failed \cup {DropStmt(table)}
                    /\ Fault("drop")
                    /\ UNCHANGED << dropLogged, catalog >>
            /\ UNCHANGED pc
    /\ UNCHANGED << now, Args, result, threshold, rows, tablesToDelete, tables,
                    currentDate, createLogged, scanned, cat0, sweepDay,
                    snapDay, created, prev, runs >>

(***************************************************************************)
(* getTablesToBackup and the loop of performBackup.                        *)
(***************************************************************************)
\* lines 180-188 and 110-112
GetQuery ==
    /\ pc = "getTablesToBackup"
    /\ \E ok \in Outcomes :
        IF ok
        THEN /\ rows' = TablesToBackup(catalog, prefix)
             /\ pc' = "getRows"
             /\ UNCHANGED << result, faults, faultsLeft >>
        ELSE /\ result' = "err"
             /\ Fault("snapQuery")
             /\ pc' = "done"
             /\ UNCHANGED rows
    /\ UNCHANGED << catalog, now, Args, threshold, tablesToDelete, tables,
                    pending, currentDate, dropLogged, createLogged, issued,
                    failed, scanned, cat0, sweepDay, snapDay, created, prev,
                    runs >>

\* lines 190-199 and 115: one turn of the loop over the rows; when the loop
\* ends performBackup reads the clock
GetRows ==
    /\ pc = "getRows"
    /\ IF rows = {}
       THEN /\ pc' = "createLoop"
            /\ pending' = tables
            /\ currentDate' = Format(now)
            /\ snapDay' = now
            /\ UNCHANGED << rows, tables, result, faults, faultsLeft >>
       ELSE \E tableName \in rows, got \in RowOutcomes :
            CASE got = "row" ->
                    /\ rows' = rows \ {tableName}
                    /\ tables' = tables \cup {tableName}
                    /\ UNCHANGED << pc, pending, currentDate, snapDay, result,
                                    faults, faultsLeft >>
              [] got = "scanError" ->
                    /\ result' = "err"
                    /\ Fault("snapScan")
                    /\ pc' = "done"
                    /\ rows' = {}
                    /\ UNCHANGED << pending, currentDate, snapDay, tables >>
              [] got = "nextError" ->
                    /\ Fault("snapNext")
                    /\ rows' = {}
                    /\ pc' = "createLoop"
                    /\ pending' = tables
                    /\ currentDate' = Format(now)
                    /\ snapDay' = now
                    /\ UNCHANGED << tables, result >>
    /\ UNCHANGED << catalog, now, Args, threshold, tablesToDelete, dropLogged,
                    createLogged, issued, failed, scanned, cat0, sweepDay,
                    created, prev, runs >>

\* whether CREATE TABLE backupTable AS SELECT * FROM table can succeed
CanCreate(cat, table, backupTable) == table \in cat /\ backupTable \notin cat

\* lines 116-128: one turn of the loop over tables
CreateLoop ==
    /\ pc = "createLoop"
    /\ IF pending = {}
       THEN /\ pc' = "done"
            /\ result' = "nil"
            /\ UNCHANGED << pending, catalog, createLogged, issued, failed,
                            faults, faultsLeft, created >>
       ELSE \E table \in pending :
            LET backupTableName == BackupTableName(prefix, table, currentDate)
                can == CanCreate(catalog, table, backupTableName)
            IN  \E ok \in (IF ~Executes(realRun) THEN {TRUE}
                           ELSE IF can THEN Outcomes ELSE {FALSE}) :
                /\ pending' = pending \ {table}
                /\ issued' = IF Executes(realRun)
                             THEN issued (+) SetToBag({CreateStmt(table, backupTableName)})
                             ELSE issued
                /\ IF ok
                   THEN /\ createLogged' = createLogged \cup {<< table, backupTableName >>}
                        /\ catalog' = IF Executes(realRun)
                                      THEN catalog \cup {backupTableName}
                                      ELSE catalog
                        /\ created' = IF Executes(realRun)
                                      THEN (backupTableName :> snapDay) @@ created
                                      ELSE created
                        /\ UNCHANGED << failed, faults, faultsLeft >>
                   ELSE /\ failed' = failed \cup {CreateStmt(table, backupTableName)}
                        /\ (IF can THEN Fault("create") ELSE NoFault)
                        /\ UNCHANGED << createLogged, catalog, created >>
                /\ UNCHANGED << pc, result >>
    /\ UNCHANGED << now, Args, threshold, rows, tablesToDelete, tables,
                    currentDate, dropLogged, scanned, cat0, sweepDay, snapDay,
                    prev, runs >>

(***************************************************************************)
(* The environment: the clock, the next call and the next start.           *)
(***************************************************************************)
\* midnight passes.  The run reads the clock in DeleteQuery and at the end
\* of GetRows, so a midnight during a run is one between the two phases
Tick ==
    /\ now < FirstDay + NumDays
    /\ pc = "getTablesToBackup" \/ (pc \in {"done", "fatal"} /\ runs < MaxRuns)
    /\ now' = now + 1
    /\ UNCHANGED << catalog, Args, pc, RunLocals, cat0, created, prev,
                    faultsLeft, runs >>

CreateTargets(bag) == {s.target : s \in {x \in BagToSet(bag) : x.op = "CREATE"}}

\* a run that met no failure of the environment and read one day from the clock
CleanRun == result = "nil" /\ faults = {} /\ sweepDay = snapDay

\* the variables of a call of performBackup, as a new call finds them
ResetLocals ==
    /\ result' = "none"
    /\ threshold' = << >>
    /\ rows' = {}
    /\ tablesToDelete' = {}
    /\ tables' = {}
    /\ pending' = {}
    /\ currentDate' = << >>
    /\ dropLogged' = {}
    /\ createLogged' = {}
    /\ issued' = EmptyBag
    /\ failed' = {}
    /\ faults' = {}
    /\ scanned' = {}
    /\ sweepDay' = 0
    /\ snapDay' = 0

\* performBackup is called again, by a caller that passes the arguments of
\* the call before.  This is a call of the function, not a start of the
\* program: main calls performBackup once in a process and, by RunFlag,
\* never with realRun = true (see Restart)
CallAgain ==
    /\ pc = "done"
    /\ runs < MaxRuns
    /\ runs' = runs + 1
    /\ pc' = "deleteOldBackups"
    /\ cat0' = catalog
    /\ prev' = IF CleanRun /\ realRun
               THEN [clean |-> TRUE, day |-> snapDay, catalog |-> catalog,
                     targets |-> CreateTargets(issued)]
               ELSE NoPrev
    /\ ResetLocals
    /\ UNCHANGED << catalog, now, Args, created, faultsLeft >>

\* the program is started again, with the command line and the
\* configuration file of the start before, after a process that ended in
\* "backup done" or in log.Fatalf: the new process begins in main, which
\* loads the configuration and passes *run
Restart ==
    /\ pc \in {"done", "fatal"}
    /\ runs < MaxRuns
    /\ runs' = runs + 1
    /\ pc' = "main"
    /\ cat0' = catalog
    /\ prev' = NoPrev
    /\ ResetLocals
    /\ UNCHANGED << catalog, now, Args, created, faultsLeft >>

Next ==
    \/ DeleteQuery
    \/ DeleteRows
    \/ DeleteLoop
    \/ GetQuery
    \/ GetRows
    \/ CreateLoop
    \/ Tick

Spec == Init /\ [][Next]_vars

NextRuns ==
    \/ DeleteQuery
    \/ DeleteRows
    \/ DeleteLoop
    \/ GetQuery
    \/ GetRows
    \/ CreateLoop
    \/ Tick
    \/ CallAgain

SpecRuns == InitRuns /\ [][NextRuns]_vars

NextMain ==
    \/ Main
    \/ DeleteQuery
    \/ DeleteRows
    \/ DeleteLoop
    \/ GetQuery
    \/ GetRows
    \/ CreateLoop
    \/ Tick
    \/ Restart

SpecMain == InitMain /\ [][NextMain]_vars

(***************************************************************************)
(* Properties.                                                             *)
(***************************************************************************)
\* name starts with pfx, character by character
StartsWith(name, pfx) ==
    /\ Len(name) >= Len(pfx)
    /\ SubSeq(name, 1, Len(pfx)) = pfx

\* the tables of the DROP statements the run sent
IssuedDrops == {s.table : s \in {x \in BagToSet(issued) : x.op = "DROP"}}

\* <<source, backup>> of the CREATE statements the run sent
IssuedCreates ==
    {<< s.table, s.target >> : s \in {x \in BagToSet(issued) : x.op = "CREATE"}}

SweepFaults == {"sweepQuery", "sweepScan", "sweepNext"}

SnapFaults == {"snapQuery", "snapScan", "snapNext"}

\* C1: a dry run sends no statement and leaves the catalog as it was; and
\* when the run ends after reading both query results to their end, the
\* tables a dry run logs as dropped and the pairs it logs as created are the
\* ones a real run on the same catalog, with the same clock readings, sends
\* DROP and CREATE statements for.
DryRunFrame ==
    /\ ~realRun => catalog = cat0 /\ issued = EmptyBag
    /\ (pc = "done" /\ result = "nil" /\ faults \cap {"sweepNext", "snapNext"} = {})
        => LET drops == {t \in BackupTables(cat0, prefix) : Expired(t, threshold)}
               creates == {<< t, BackupTableName(prefix, t, currentDate) >> :
                               t \in TablesToBackup(cat0, prefix)}
           IN  IF realRun
               THEN IssuedDrops = drops /\ IssuedCreates = creates
               ELSE dropLogged = drops /\ createLogged = creates

\* a dry run that ended and logged a drop and a creation
DryRunFrameWitness ==
    /\ ~realRun
    /\ pc = "done"
    /\ result = "nil"
    /\ faults = {}
    /\ dropLogged # {}
    /\ createLogged # {}
    /\ Cardinality(cat0) >= 3

\* C2: performBackup runs in real-run mode exactly when the operator gave
\* the run switch on the command line.
RunSwitchDecidesMode ==
    pc \notin {"main", "fatal"} => (realRun <=> runSwitch)

\* C3: deleteOldBackups marks a table exactly when the prefix query returned
\* it, its name has at least 8 characters and the last 8 characters are
\* less, as a string, than the day of the run minus retentionDays in the
\* form YYYYMMDD; a shorter name is never marked, nor one whose last 8
\* characters are the threshold.
SweepMarks ==
    LET thr == Format(sweepDay - retentionDays)
        last8(t) == SubSeq(t, Len(t) - 7, Len(t))
    IN  /\ scanned \subseteq BackupTables(cat0, prefix)
        /\ tablesToDelete =
               {t \in scanned : Len(t) >= 8 /\ StrLess(last8(t), thr)}
        /\ \A t \in scanned : Len(t) < 8 => t \notin tablesToDelete
        /\ \A t \in scanned :
               (Len(t) >= 8 /\ last8(t) = thr) => t \notin tablesToDelete

\* C4: every table of the catalog is in the result of exactly one of the two
\* queries, and it is in the sweep's exactly when its name starts with the
\* prefix.
PrefixPartition ==
    /\ pc = "deleteRows"
           => /\ rows \cup scanned = {t \in catalog : StartsWith(t, prefix)}
              /\ TablesToBackup(catalog, prefix) = catalog \ (rows \cup scanned)
    /\ pc = "getRows"
           => /\ rows \cup tables = {t \in catalog : ~StartsWith(t, prefix)}
              /\ BackupTables(catalog, prefix) = catalog \ (rows \cup tables)

\* C5: a table that a run created is never a source of a later run, in no
\* statement and in no log line, and it is in the result of the sweep's
\* query in every later run while it is in the catalog.
BackupsNeverSources ==
    /\ tables \cap DOMAIN created = {}
    /\ \A c \in IssuedCreates \cup createLogged : c[1] \notin DOMAIN created
    /\ pc = "getRows" => rows \cap DOMAIN created = {}
    /\ pc = "deleteRows" => (DOMAIN created \cap catalog) \subseteq (rows \cup scanned)

\* a later run, on a catalog with backup tables of an earlier run, read its
\* sources to the end
BackupsNeverSourcesWitness ==
    /\ runs >= 2
    /\ pc = "createLoop"
    /\ faults = {}
    /\ tables # {}
    /\ DOMAIN created \cap cat0 # {}
    /\ DOMAIN created \cap catalog # {}

\* C6: a failure of a catalog query, or of reading one of its rows, ends
\* the run with an error: in the sweep before any DROP and without a
\* snapshot pass, in the snapshot pass before any CREATE.
EnumerationFailureAborts ==
    /\ faults \cap SweepFaults # {}
           => /\ pc = "done"
              /\ result = "err"
              /\ issued = EmptyBag
              /\ dropLogged = {}
              /\ createLogged = {}
    /\ faults \cap SnapFaults # {}
           => /\ pc = "done"
              /\ result = "err"
              /\ IssuedCreates = {}
              /\ createLogged = {}

\* C7: in a real run whose queries and row scans succeed, whatever DROP and
\* CREATE statements fail, the run sends one DROP for each marked table and
\* one CREATE for each source table, nothing else, and returns nil.
SoftFailuresAbsorbed ==
    (realRun /\ pc = "done" /\
     faults \cap {"sweepQuery", "sweepScan", "snapQuery", "snapScan"} = {})
        => /\ result = "nil"
           /\ \A t \in tablesToDelete : CopiesIn(DropStmt(t), issued) = 1
           /\ \A t \in tables :
                  CopiesIn(CreateStmt(t, BackupTableName(prefix, t, currentDate)),
                           issued) = 1
           /\ BagCardinality(issued) = Cardinality(tablesToDelete) + Cardinality(tables)
           /\ failed \subseteq BagToSet(issued)

\* a real run returned nil after a DROP failed and another succeeded, and a
\* CREATE failed and another succeeded
SoftFailuresAbsorbedWitness ==
    /\ realRun
    /\ pc = "done"
    /\ result = "nil"
    /\ \E f \in failed : f.op = "DROP"
    /\ \E f \in failed : f.op = "CREATE"
    /\ dropLogged # {}
    /\ createLogged # {}

\* C8: in a real run in which nothing fails, the snapshot pass sends one
\* CREATE for each table whose name does not start with the prefix, with
\* target prefix_table_date for the one date the pass read, and afterwards
\* the catalog holds these targets besides the tables the sweep left.
SnapshotCreatesAll ==
    (realRun /\ pc = "done" /\ result = "nil" /\ faults = {} /\ failed = {})
        => LET left == cat0 \ dropLogged
               sources == {t \in left : ~StartsWith(t, prefix)}
               targets == {BackupTableName(prefix, t, Format(snapDay)) : t \in sources}
           IN  /\ IssuedCreates =
                      {<< t, BackupTableName(prefix, t, Format(snapDay)) >> : t \in sources}
               /\ \A c \in IssuedCreates :
                      CopiesIn(CreateStmt(c[1], c[2]), issued) = 1
               /\ targets \cap left = {}
               /\ Cardinality(targets) = Cardinality(sources)
               /\ catalog = left \cup targets

\* C9: a real run that follows, on the same day, a real run in which nothing
\* failed, and in which the environment makes nothing fail, sends CREATE for
\* the same targets, each of which fails, drops no backup of the first run,
\* returns nil and leaves the catalog as the first run left it.
SameDayRerunIdempotent ==
    (pc = "done" /\ realRun /\ prev.clean /\ faults = {} /\ retentionDays >= 0 /\
     sweepDay = prev.day /\ snapDay = prev.day)
        => /\ result = "nil"
           /\ CreateTargets(issued) = prev.targets
           /\ \A s \in BagToSet(issued) : s.op = "CREATE" => s \in failed
           /\ IssuedDrops \cap prev.targets = {}
           /\ catalog = prev.catalog

\* the dates of the days of the clock, as the runs write them
DayString == [z \in FirstDay..(FirstDay + NumDays) |-> Format(z)]

\* C10: a real run drops a backup table that a run created on day D only if
\* its sweep reads a day T with T - D > retentionDays, and a sweep in which
\* nothing fails drops every such table that is there; the suffix of a backup
\* table is its day, and it is less than the threshold, as a string, exactly
\* when its day is before the threshold's day.
RetentionInDays ==
    /\ \A t \in DOMAIN created : DatePart(t) = DayString[created[t]]
    /\ pc = "deleteLoop"
           => \A t \in DOMAIN created :
                  StrLess(DatePart(t), threshold)
                      <=> created[t] < sweepDay - retentionDays
    /\ (realRun /\ retentionDays >= 0)
           => \A t \in DOMAIN created \cap dropLogged :
                  sweepDay - created[t] > retentionDays
    /\ (realRun /\ retentionDays >= 0 /\
        pc \in {"getTablesToBackup", "getRows", "createLoop", "done"} /\
        faults \cap (SweepFaults \cup {"drop"}) = {})
           => \A t \in DOMAIN created \cap cat0 :
                  (t \in dropLogged /\ t \notin catalog)
                      <=> sweepDay - created[t] > retentionDays

=============================================================================
